---------------------------- MODULE Spec2Model ----------------------------
(***************************************************************************)
(* BudgetBuddy (src/budget.js): a command line ledger.  Every command      *)
(* loads data.json, changes or queries the document and, when it changed   *)
(* it, writes the whole document back.                                     *)
(*                                                                         *)
(* Strings are sequences of one-character strings, so that toLowerCase,    *)
(* parseFloat, Number.prototype.toString and the property order of plain   *)
(* objects are computed from the characters.  Numbers are whole numbers    *)
(* with a significand of MantBits bits, rounded to nearest-even as IEEE    *)
(* doubles are (budget.js uses doubles, whose significand has 53 bits).    *)
(***************************************************************************)
EXTENDS Integers, Sequences, FiniteSets, TLC

(***************************************************************************)
(* Bounds of the model.                                                    *)
(***************************************************************************)
\* add is explored while the store holds fewer than MaxTx transactions
MaxTx == 2
\* setgoal of a new key is explored while the store holds fewer than MaxGoals goals
MaxGoals == 2
\* Date.now() is explored up to StartClock + MaxTicks
MaxTicks == 1
\* significand width of a Number (53 in the engine that runs budget.js)
MantBits == 10

(***************************************************************************)
(* Characters and strings.                                                 *)
(***************************************************************************)
Digits == <<"0", "1", "2", "3", "4", "5", "6", "7", "8", "9">>

DigitValues == [c \in {Digits[i] : i \in 1..10} |-> (CHOOSE i \in 1..10 : Digits[i] = c) - 1]

IsDigit(c) == c \in DOMAIN DigitValues

DigitVal(c) == DigitValues[c]

Upper == <<"A", "B", "C", "D", "E", "F", "G", "H", "I", "J", "K", "L", "M",
           "N", "O", "P", "Q", "R", "S", "T", "U", "V", "W", "X", "Y", "Z">>

Lower == <<"a", "b", "c", "d", "e", "f", "g", "h", "i", "j", "k", "l", "m",
           "n", "o", "p", "q", "r", "s", "t", "u", "v", "w", "x", "y", "z">>

LowerOf == [c \in {Upper[i] : i \in 1..26} |-> Lower[CHOOSE i \in 1..26 : Upper[i] = c]]

LowerChar(c) == IF c \in DOMAIN LowerOf THEN LowerOf[c] ELSE c

\* String.prototype.toLowerCase, budget.js line 81
ToLowerCase(s) == [i \in 1..Len(s) |-> LowerChar(s[i])]

StartsWith(s, p) == Len(s) >= Len(p) /\ SubSeq(s, 1, Len(p)) = p

INCOME == <<"i", "n", "c", "o", "m", "e">>
EXPENSE == <<"e", "x", "p", "e", "n", "s", "e">>
TOTAL == <<"t", "o", "t", "a", "l">>
INFINITY == <<"I", "n", "f", "i", "n", "i", "t", "y">>
PROTO == <<"_", "_", "p", "r", "o", "t", "o", "_", "_">>
TOSTRING == <<"t", "o", "S", "t", "r", "i", "n", "g">>
CONSTRUCTOR == <<"c", "o", "n", "s", "t", "r", "u", "c", "t", "o", "r">>
VALUEOF == <<"v", "a", "l", "u", "e", "O", "f">>

(***************************************************************************)
(* JavaScript values.  k is the kind; n is the number of a "num" and the   *)
(* sign (1 or -1) of an "inf".  A "str" is the result of a string          *)
(* concatenation (never the text of a number here), an "obj" a member of   *)
(* Object.prototype.                                                       *)
(***************************************************************************)
Num(n) == [k |-> "num", n |-> n]
Inf(s) == [k |-> "inf", n |-> s]
NaN == [k |-> "nan", n |-> 0]
Null == [k |-> "null", n |-> 0]
Undefined == [k |-> "undefined", n |-> 0]
StrVal == [k |-> "str", n |-> 0]
ObjVal == [k |-> "obj", n |-> 0]

RECURSIVE Pow2(_)
Pow2(e) == IF e = 0 THEN 1 ELSE 2 * Pow2(e - 1)

\* the whole numbers below MaxExact are Numbers, and MaxExact is
MaxExact == Pow2(MantBits)

\* the unit in the last place of n: the least power of two u, from u up,
\* with n < MaxExact * u
RECURSIVE Ulp(_, _)
Ulp(n, u) == IF n < MaxExact * u THEN u ELSE Ulp(n, 2 * u)

\* a natural number rounded to MantBits significant bits, ties to even
RoundNat(n) ==
    LET u == Ulp(n, 1)
        q == n \div u
        r == n % u
    IN  IF 2 * r > u \/ (2 * r = u /\ q % 2 = 1) THEN (q + 1) * u ELSE q * u

\* an integer as the nearest Number
Round(n) == IF n >= 0 THEN RoundNat(n) ELSE 0 - RoundNat(0 - n)

\* ToNumber
ToNumber(v) ==
    CASE v.k = "num" -> v
      [] v.k = "inf" -> v
      [] v.k = "null" -> Num(0)
      [] OTHER -> NaN

\* a + b of Numbers
NumAdd(a, b) ==
    CASE a.k = "nan" \/ b.k = "nan" -> NaN
      [] a.k = "inf" /\ b.k = "inf" -> IF a.n = b.n THEN a ELSE NaN
      [] a.k = "inf" -> a
      [] b.k = "inf" -> b
      [] OTHER -> Num(Round(a.n + b.n))

Negate(a) ==
    CASE a.k = "num" -> Num(0 - a.n)
      [] a.k = "inf" -> Inf(0 - a.n)
      [] OTHER -> a

\* the + operator: concatenation when an operand is a string or an object
Plus(a, b) ==
    IF a.k \in {"str", "obj"} \/ b.k \in {"str", "obj"}
    THEN StrVal
    ELSE NumAdd(ToNumber(a), ToNumber(b))

\* the binary - operator
Minus(a, b) == NumAdd(ToNumber(a), Negate(ToNumber(b)))

\* a > b of Numbers
NumGreater(a, b) ==
    CASE a.k = "nan" \/ b.k = "nan" -> FALSE
      [] a.k = "inf" /\ b.k = "inf" -> a.n > b.n
      [] a.k = "inf" -> a.n = 1
      [] b.k = "inf" -> b.n = -1
      [] OTHER -> a.n > b.n

\* the > operator with a Number on the right
Greater(a, b) == NumGreater(ToNumber(a), ToNumber(b))

\* a <= 0
LessEqZero(a) ==
    LET x == ToNumber(a)
    IN  CASE x.k = "nan" -> FALSE
          [] x.k = "inf" -> x.n = -1
          [] OTHER -> x.n <= 0

\* the global isNaN
IsNaN(a) == ToNumber(a).k = "nan"

\* ToBoolean, as the || operator applies it
Truthy(v) ==
    CASE v.k = "num" -> v.n # 0
      [] v.k \in {"inf", "str", "obj"} -> TRUE
      [] OTHER -> FALSE

\* a || b
OrElse(a, b) == IF Truthy(a) THEN a ELSE b

(***************************************************************************)
(* Conversions between strings and Numbers.  The command line arguments    *)
(* of the model hold whole-number literals: no fraction and no exponent.   *)
(***************************************************************************)
IsWhiteSpace(c) == c = " "

RECURSIVE SkipWhiteSpace(_)
SkipWhiteSpace(s) ==
    IF s # <<>> /\ IsWhiteSpace(s[1]) THEN SkipWhiteSpace(Tail(s)) ELSE s

\* the length of the longest prefix of s made of digits
RECURSIVE DigitPrefixLen(_)
DigitPrefixLen(s) ==
    IF s # <<>> /\ IsDigit(s[1]) THEN 1 + DigitPrefixLen(Tail(s)) ELSE 0

\* the value of a string of digits
RECURSIVE DecimalValue(_)
DecimalValue(s) ==
    IF s = <<>> THEN 0
    ELSE 10 * DecimalValue(SubSeq(s, 1, Len(s) - 1)) + DigitVal(s[Len(s)])

\* the global parseFloat: leading white space, a sign, then Infinity or the
\* longest prefix that is a decimal literal; anything after it is ignored
ParseFloat(s) ==
    LET t == SkipWhiteSpace(s)
        signed == t # <<>> /\ t[1] \in {"+", "-"}
        sign == IF t # <<>> /\ t[1] = "-" THEN -1 ELSE 1
        rest == IF signed THEN Tail(t) ELSE t
        n == DigitPrefixLen(rest)
    IN  IF StartsWith(rest, INFINITY) THEN Inf(sign)
        ELSE IF n = 0 THEN NaN
        ELSE Num(sign * RoundNat(DecimalValue(SubSeq(rest, 1, n))))

RECURSIVE NatToString(_)
NatToString(n) ==
    IF n < 10 THEN <<Digits[n + 1]>>
    ELSE NatToString(n \div 10) \o <<Digits[(n % 10) + 1]>>

\* Number.prototype.toString of a whole number, budget.js line 148
NumberToString(n) ==
    IF n < 0 THEN <<"-">> \o NatToString(0 - n) ELSE NatToString(n)

\* Number.prototype.toFixed(2), budget.js line 118
ToFixed2(v) ==
    CASE v.k = "num" -> NumberToString(v.n) \o <<".", "0", "0">>
      [] v.k = "inf" -> IF v.n = 1 THEN INFINITY ELSE <<"-">> \o INFINITY
      [] OTHER -> <<"N", "a", "N">>

(***************************************************************************)
(* Plain objects used as maps (data.goals, spentByCategory): the own       *)
(* properties as a sequence of [key, val] in the order for-in,             *)
(* Object.entries and JSON.stringify visit them: the keys that are array   *)
(* indices first, ascending, then the other keys in order of creation.     *)
(***************************************************************************)
MaxIndexDigits == <<"4", "2", "9", "4", "9", "6", "7", "2", "9", "4">>

\* a <= b for two strings of digits of the same length
RECURSIVE DigitsLeq(_, _)
DigitsLeq(a, b) ==
    IF a = <<>> THEN TRUE
    ELSE IF a[1] # b[1] THEN DigitVal(a[1]) < DigitVal(b[1])
    ELSE DigitsLeq(Tail(a), Tail(b))

\* a < b for two canonical strings of digits
IndexLess(a, b) ==
    \/ Len(a) < Len(b)
    \/ Len(a) = Len(b) /\ a # b /\ DigitsLeq(a, b)

\* a canonical numeric string of an integer in 0 .. 2^32 - 2
IsArrayIndex(key) ==
    /\ key # <<>>
    /\ \A i \in 1..Len(key) : IsDigit(key[i])
    /\ (Len(key) > 1 => key[1] # "0")
    /\ \/ Len(key) < Len(MaxIndexDigits)
       \/ Len(key) = Len(MaxIndexDigits) /\ DigitsLeq(key, MaxIndexDigits)

EmptyObject == <<>>

HasOwn(obj, key) == \E i \in 1..Len(obj) : obj[i].key = key

OwnIndex(obj, key) == CHOOSE i \in 1..Len(obj) : obj[i].key = key

\* the names every plain object inherits from Object.prototype
ObjectPrototypeKeys == {TOSTRING, CONSTRUCTOR, VALUEOF}

\* obj[key]
Get(obj, key) ==
    IF HasOwn(obj, key) THEN obj[OwnIndex(obj, key)].val
    ELSE IF key = PROTO \/ key \in ObjectPrototypeKeys THEN ObjVal
    ELSE Undefined

\* every new property after the ones there are
InsertAtEnd(obj, key) == Len(obj) + 1

\* where a new own property key goes among the own properties of obj
InsertAt(obj, key) ==
    IF IsArrayIndex(key)
    THEN 1 + Cardinality({i \in 1..Len(obj) :
                             IsArrayIndex(obj[i].key) /\ IndexLess(obj[i].key, key)})
    ELSE Len(obj) + 1

\* CreateDataProperty: an own property, whatever its name
DefineOwn(obj, key, val) ==
    IF HasOwn(obj, key)
    THEN [obj EXCEPT ![OwnIndex(obj, key)].val = val]
    ELSE LET p == InsertAt(obj, key)
         IN  SubSeq(obj, 1, p - 1) \o <<[key |-> key, val |-> val]>>
                 \o SubSeq(obj, p, Len(obj))

\* obj[key] = val with val a primitive: __proto__ is an accessor of
\* Object.prototype whose setter ignores a value that is no object
Set(obj, key, val) ==
    IF key = PROTO /\ ~HasOwn(obj, key) THEN obj ELSE DefineOwn(obj, key, val)

\* the keys a for-in loop visits, in order
Keys(obj) == [i \in 1..Len(obj) |-> obj[i].key]

(***************************************************************************)
(* The store: data.json.  content is the JSON text as the tree it          *)
(* denotes: the transactions in order, the members of goals in the order   *)
(* they are written.  form tells what the text is: "document" (an object   *)
(* with transactions and goals), "noGoals" or "noTransactions" (an object  *)
(* without that member, whose place in content is empty), "null" (the JSON *)
(* null) or "text" (no JSON at all: an empty or cut file, CSV).            *)
(***************************************************************************)
VARIABLES
    file,       \* data.json: whether it exists, its form and its content
    clock,      \* the latest reading of Date.now()
    last,       \* the command that ran last: its arguments, exit status and output
    goalOrder,  \* history: the goal keys in the order setgoal first stored them
    csv,        \* the file export writes, when it is not data.json
    procs       \* the invocations that run side by side: what each has loaded

vars == <<file, clock, last, goalOrder, csv, procs>>

EmptyDocument == [transactions |-> <<>>, goals |-> EmptyObject]

\* JSON.stringify of a Number: null unless it is finite
JsonNumber(v) == IF v.k = "num" THEN v ELSE Null

\* JSON.stringify(data, null, 2), budget.js line 26
Stringify(data) ==
    [transactions |->
        [i \in 1..Len(data.transactions) |->
            [data.transactions[i] EXCEPT !.amount = JsonNumber(@)]],
     goals |->
        [i \in 1..Len(data.goals) |->
            [key |-> data.goals[i].key, val |-> JsonNumber(data.goals[i].val)]]]

\* the object a JSON object denotes: its members defined in the order read
RECURSIVE ParseObject(_)
ParseObject(members) ==
    IF members = <<>> THEN EmptyObject
    ELSE LET m == members[Len(members)]
         IN  DefineOwn(ParseObject(SubSeq(members, 1, Len(members) - 1)), m.key, m.val)

\* JSON.parse(raw), budget.js line 22
Parse(content) ==
    [transactions |-> content.transactions, goals |-> ParseObject(content.goals)]

\* loadData, budget.js lines 17-23
LoadData(f) == IF ~f.exists THEN EmptyDocument ELSE Parse(f.content)

\* saveData, budget.js lines 25-27: the file after the write
SaveData(data) == [exists |-> TRUE, form |-> "document", content |-> Stringify(data)]

\* the members the object loaded from f has: both when loadData makes it
FormOf(f) == IF f.exists THEN f.form ELSE "document"

\* saveData of the object loaded from f: JSON.stringify writes the members
\* the object has, so one read without goals is written without goals
SaveLoaded(f, data) == [SaveData(data) EXCEPT !.form = FormOf(f)]

\* the commands that read data.transactions before they write or print
TransactionReaders == {"add", "balance", "list", "delete", "export"}

\* the exception a command meets between loadData and its end, "none" when
\* it meets none: JSON.parse on text that is no JSON (line 22); a member of
\* null; push, for-of, length or filter on the missing data.transactions
\* (lines 101, 31, 126, 146, 164); the assignment into the missing
\* data.goals (line 201).  goals tests !data.goals (line 212) and for-in
\* over undefined (line 50) visits nothing.
Thrown(cmd, f) ==
    CASE ~f.exists -> "none"
      [] f.form = "text" -> "SyntaxError"
      [] f.form = "null" -> "TypeError"
      [] f.form = "noTransactions" /\ cmd \in TransactionReaders -> "TypeError"
      [] f.form = "noGoals" /\ cmd = "setgoal" -> "TypeError"
      [] OTHER -> "none"

(***************************************************************************)
(* calculateBalance and checkAlerts.                                       *)
(***************************************************************************)
\* the loop of calculateBalance over ts, from the sums so far
RECURSIVE BalanceLoop(_, _, _)
BalanceLoop(ts, income, expense) ==
    IF ts = <<>> THEN Minus(income, expense)
    ELSE IF ts[1].type = INCOME
         THEN BalanceLoop(Tail(ts), Plus(income, ts[1].amount), expense)
         ELSE BalanceLoop(Tail(ts), income, Plus(expense, ts[1].amount))

\* calculateBalance, budget.js lines 29-36
CalculateBalance(transactions) == BalanceLoop(transactions, Num(0), Num(0))

\* budget.js lines 43-48: spentByCategory after the loop over ts
RECURSIVE SpentLoop(_, _)
SpentLoop(ts, spentByCategory) ==
    IF ts = <<>> THEN spentByCategory
    ELSE IF ts[1].type = EXPENSE
         THEN SpentLoop(Tail(ts),
                        Set(spentByCategory, ts[1].category,
                            Plus(OrElse(Get(spentByCategory, ts[1].category), Num(0)),
                                 ts[1].amount)))
         ELSE SpentLoop(Tail(ts), spentByCategory)

\* budget.js lines 43-48: totalExpense after the loop over ts
RECURSIVE TotalLoop(_, _)
TotalLoop(ts, totalExpense) ==
    IF ts = <<>> THEN totalExpense
    ELSE IF ts[1].type = EXPENSE
         THEN TotalLoop(Tail(ts), Plus(totalExpense, ts[1].amount))
         ELSE TotalLoop(Tail(ts), totalExpense)

\* budget.js lines 51-59: the alerts one goal key pushes
AlertsOf(cat, goals, spentByCategory, totalExpense) ==
    IF cat = TOTAL
    THEN IF Greater(totalExpense, Get(goals, cat))
         THEN <<[kind |-> "total", key |-> cat, spent |-> totalExpense,
                 goal |-> Get(goals, cat)]>>
         ELSE <<>>
    ELSE IF Greater(OrElse(Get(spentByCategory, cat), Num(0)), Get(goals, cat))
         THEN <<[kind |-> "category", key |-> cat,
                 spent |-> OrElse(Get(spentByCategory, cat), Num(0)),
                 goal |-> Get(goals, cat)]>>
         ELSE <<>>

\* budget.js lines 49-60: the loop for (const cat in goals)
RECURSIVE AlertLoop(_, _, _, _)
AlertLoop(keys, goals, spentByCategory, totalExpense) ==
    IF keys = <<>> THEN <<>>
    ELSE AlertsOf(keys[1], goals, spentByCategory, totalExpense)
             \o AlertLoop(Tail(keys), goals, spentByCategory, totalExpense)

\* checkAlerts, budget.js lines 40-62
CheckAlerts(transactions, goals) ==
    AlertLoop(Keys(goals), goals, SpentLoop(transactions, EmptyObject),
              TotalLoop(transactions, Num(0)))

(***************************************************************************)
(* The commands.  Each action is one invocation of budget.js, from its     *)
(* arguments to its exit.                                                  *)
(***************************************************************************)
MsPerDay == 86400000

\* the reading of Date.now() the first command can get, in milliseconds
StartClock == 9

\* new Date().toISOString().slice(0,10), budget.js line 99: the day of t
DateOf(t) == t \div MsPerDay

NoOutput == <<>>

Outcome(cmd, args, exit, msg, alerts, report) ==
    [cmd |-> cmd, args |-> args, exit |-> exit, msg |-> msg,
     alerts |-> alerts, report |-> report]

\* budget.js line 82
TypeInvalid(type) == type # INCOME /\ type # EXPENSE

\* a validation that lets a zero amount through
AmountInvalidBelowZero(amount) == IsNaN(amount) \/ Greater(Num(0), amount)

\* budget.js lines 87 and 196
AmountInvalid(amount) == IsNaN(amount) \/ LessEqZero(amount)

\* a list left as it was, as concat without an assignment leaves it
PushDropped(transactions, transaction) == transactions

\* an insertion at the front of the list
PushFront(transactions, transaction) == <<transaction>> \o transactions

\* data.transactions.push(transaction), budget.js line 101
Push(transactions, transaction) == Append(transactions, transaction)

\* budget.js lines 93-100
NewTransaction(t, type, amount, category, description) ==
    [id |-> t, type |-> type, amount |-> amount, category |-> category,
     description |-> description, date |-> DateOf(t)]

\* add <type> <amount> <category> [description], budget.js lines 80-109,
\* with t the reading of Date.now(), when nothing is thrown
AddCmd(type, amount, category, description, t) ==
    LET args == <<type, amount, category, description>>
        ty == ToLowerCase(type)
        am == ParseFloat(amount)
        data == LoadData(file)
        pushed == [data EXCEPT !.transactions =
                      Push(@, NewTransaction(t, ty, am, category, description))]
    IN  \/ /\ TypeInvalid(ty)
           /\ last' = Outcome("add", args, 1, "Type must be \"income\" or \"expense\"",
                              NoOutput, NoOutput)
           /\ UNCHANGED <<file, clock, goalOrder, csv, procs>>
        \/ /\ ~TypeInvalid(ty)
           /\ AmountInvalid(am)
           /\ last' = Outcome("add", args, 1, "Amount must be a positive number",
                              NoOutput, NoOutput)
           /\ UNCHANGED <<file, clock, goalOrder, csv, procs>>
        \/ /\ ~TypeInvalid(ty)
           /\ ~AmountInvalid(am)
           /\ Thrown("add", file) = "none"
           /\ Len(data.transactions) < MaxTx
           /\ file' = SaveLoaded(file, pushed)
           /\ clock' = t
           /\ last' = Outcome("add", args, 0, "Added",
                              CheckAlerts(pushed.transactions, pushed.goals), NoOutput)
           /\ UNCHANGED <<goalOrder, csv, procs>>

\* a comparison of the identifier as a number
IdDiffersAsNumber(transaction, id) == ParseFloat(id) # Num(transaction.id)

\* budget.js line 148: the transactions the filter keeps
IdDiffers(transaction, id) == NumberToString(transaction.id) # id

FilterOut(transactions, id) == SelectSeq(transactions, LAMBDA t : IdDiffers(t, id))

\* delete <id>, budget.js lines 145-155, when nothing is thrown
DeleteCmd(id) ==
    LET data == LoadData(file)
        kept == FilterOut(data.transactions, id)
    IN  \/ /\ Thrown("delete", file) = "none"
           /\ Len(kept) = Len(data.transactions)
           /\ last' = Outcome("delete", <<id>>, 0, "No transaction found with that ID",
                              NoOutput, NoOutput)
           /\ UNCHANGED <<file, clock, goalOrder, csv, procs>>
        \/ /\ Thrown("delete", file) = "none"
           /\ Len(kept) # Len(data.transactions)
           /\ file' = SaveLoaded(file, [data EXCEPT !.transactions = kept])
           /\ last' = Outcome("delete", <<id>>, 0, "Deleted", NoOutput, NoOutput)
           /\ UNCHANGED <<clock, goalOrder, csv, procs>>

\* setgoal <category> <amount>, budget.js lines 194-204, when nothing is thrown
SetGoalCmd(category, amount) ==
    LET args == <<category, amount>>
        am == ParseFloat(amount)
        data == LoadData(file)
        stored == [data EXCEPT !.goals = Set(@, category, am)]
    IN  \/ /\ AmountInvalid(am)
           /\ last' = Outcome("setgoal", args, 0, "Amount must be a positive number",
                              NoOutput, NoOutput)
           /\ UNCHANGED <<file, clock, goalOrder, csv, procs>>
        \/ /\ ~AmountInvalid(am)
           /\ Thrown("setgoal", file) = "none"
           /\ HasOwn(data.goals, category) \/ Len(data.goals) < MaxGoals
           /\ file' = SaveLoaded(file, stored)
           /\ goalOrder' = IF HasOwn(stored.goals, category)
                              /\ \A i \in 1..Len(goalOrder) : goalOrder[i] # category
                           THEN Append(goalOrder, category)
                           ELSE goalOrder
           /\ last' = Outcome("setgoal", args, 0, "Set budget goal", NoOutput, NoOutput)
           /\ UNCHANGED <<clock, csv, procs>>

\* balance, budget.js lines 115-119, when nothing is thrown
BalanceCmd ==
    /\ Thrown("balance", file) = "none"
    /\ last' = Outcome("balance", <<>>, 0, "Current balance", NoOutput,
                       ToFixed2(CalculateBalance(LoadData(file).transactions)))
    /\ UNCHANGED <<file, clock, goalOrder, csv, procs>>

(***************************************************************************)
(* The ledger: every command, on one category.                             *)
(***************************************************************************)
FOOD == <<"f", "o", "o", "d">>

\* the least whole number whose successor is no Number
Big == NatToString(MaxExact)

TypeArgs == {INCOME, <<"E", "x", "p", "e", "n", "s", "e">>, <<"s", "a", "v", "e">>}

AmountArgs == {<<"1">>, Big, INFINITY, <<"0">>, <<"a", "b", "c">>}

CategoryArgs == {FOOD}

GoalKeyArgs == {TOTAL, FOOD}

GoalAmountArgs == {<<"1">>, <<"0">>}

\* a reading of Date.now() is no earlier than the reading before it
ClockReadings == {t \in {clock, clock + 1} : t <= StartClock + MaxTicks}

IdArgs == {NatToString(i) : i \in StartClock..(StartClock + MaxTicks)}
              \cup {<<"0">> \o NatToString(StartClock)}

\* no data.json yet
NoFile == [exists |-> FALSE, form |-> "document", content |-> EmptyDocument]

\* no export file yet
NoCsv == [exists |-> FALSE, rows |-> <<>>]

\* no invocation runs beside the one of the step
NoProcs == <<>>

Init ==
    /\ file = NoFile
    /\ clock = StartClock
    /\ last = Outcome("none", <<>>, 0, "", NoOutput, NoOutput)
    /\ goalOrder = <<>>
    /\ csv = NoCsv
    /\ procs = NoProcs

Next ==
    \/ \E type \in TypeArgs, amount \in AmountArgs, category \in CategoryArgs,
          t \in ClockReadings : AddCmd(type, amount, category, <<>>, t)
    \/ \E id \in IdArgs : DeleteCmd(id)
    \/ \E category \in GoalKeyArgs, amount \in GoalAmountArgs :
          SetGoalCmd(category, amount)
    \/ BalanceCmd

Spec == Init /\ [][Next]_vars

(***************************************************************************)
(* The goals: add of expenses and setgoal on categories that are array     *)
(* indices ("2", "10"), a digit string that is none ("02"), a name every   *)
(* object inherits (toString) and the reserved key total.                  *)
(***************************************************************************)
AlertTypeArgs == {EXPENSE}

AlertAmountArgs == {<<"1">>, <<"2">>}

AlertCategoryArgs == {<<"2">>, <<"1", "0">>, <<"0", "2">>, TOSTRING}

AlertGoalKeyArgs == AlertCategoryArgs \cup {TOTAL}

AlertGoalAmountArgs == {<<"1">>}

NextAlerts ==
    \/ \E type \in AlertTypeArgs, amount \in AlertAmountArgs,
          category \in AlertCategoryArgs : AddCmd(type, amount, category, <<>>, clock)
    \/ \E category \in AlertGoalKeyArgs, amount \in AlertGoalAmountArgs :
          SetGoalCmd(category, amount)
    \/ SetGoalCmd(TOTAL, <<"0">>)

SpecAlerts == Init /\ [][NextAlerts]_vars

(***************************************************************************)
(* goals, and the goals specification: setgoal with the keys and amounts   *)
(* that decide what is stored (a key every object inherits a setter for,   *)
(* an amount that is no finite number), add to have transactions, goals    *)
(* to read the store.                                                      *)
(***************************************************************************)
\* `${val}` of a goal value, budget.js line 219
TemplateText(v) ==
    IF v.k = "num" THEN NumberToString(v.n) ELSE <<"n", "u", "l", "l">>

\* Object.entries(data.goals).forEach: one line per goal, budget.js lines 218-220
GoalRows(goals) ==
    [i \in 1..Len(goals) |-> <<goals[i].key, TemplateText(goals[i].val)>>]

\* goals, budget.js lines 210-221, when nothing is thrown
GoalsCmd ==
    LET data == LoadData(file)
    IN  /\ Thrown("goals", file) = "none"
        /\ last' = IF Len(Keys(data.goals)) = 0
                   THEN Outcome("goals", <<>>, 0, "No budget goals set.", NoOutput, NoOutput)
                   ELSE Outcome("goals", <<>>, 0, "Budget Goals", NoOutput,
                                GoalRows(data.goals))
        /\ UNCHANGED <<file, clock, goalOrder, csv, procs>>

SetGoalKeyArgs == {FOOD, PROTO, <<"2">>}

SetGoalAmountArgs == {<<"1">>, <<"2">>, INFINITY, <<"0">>, <<"-", "1">>, <<"a", "b", "c">>}

NextGoals ==
    \/ \E category \in SetGoalKeyArgs, amount \in SetGoalAmountArgs :
          SetGoalCmd(category, amount)
    \/ AddCmd(EXPENSE, <<"1">>, FOOD, <<>>, clock)
    \/ GoalsCmd

SpecGoals == Init /\ [][NextGoals]_vars

(***************************************************************************)
(* list and export.  A file name is the path it resolves to from the       *)
(* working directory; DATA_FILE is the path of data.json.                   *)
(***************************************************************************)
RECURSIVE PadEnd(_, _)
\* String.prototype.padEnd(n), budget.js line 134
PadEnd(s, n) == IF Len(s) >= n THEN s ELSE PadEnd(Append(s, " "), n)

\* the line list prints for a transaction, budget.js line 134
ListRow(t) ==
    <<PadEnd(NumberToString(t.id), 8), PadEnd(t.type, 7),
      PadEnd(ToFixed2(t.amount), 9), PadEnd(t.category, 13),
      PadEnd(t.description, 18), NumberToString(t.date)>>

\* t.amount.toFixed throws a TypeError: the amount is null, budget.js line 134
ToFixedThrows(t) == t.amount.k # "num"

\* how many transactions forEach visits before toFixed throws
RowsBeforeThrow(transactions) ==
    IF \E i \in 1..Len(transactions) : ToFixedThrows(transactions[i])
    THEN (CHOOSE i \in 1..Len(transactions) :
              /\ ToFixedThrows(transactions[i])
              /\ \A j \in 1..(i - 1) : ~ToFixedThrows(transactions[j])) - 1
    ELSE Len(transactions)

\* list, budget.js lines 125-138, when data.transactions can be read
ListCmd ==
    LET data == LoadData(file)
        n == RowsBeforeThrow(data.transactions)
        rows == [i \in 1..n |-> ListRow(data.transactions[i])]
    IN  /\ Thrown("list", file) = "none"
        /\ last' = IF Len(data.transactions) = 0
                   THEN Outcome("list", <<>>, 0, "No transactions found.", NoOutput, NoOutput)
                   ELSE IF n < Len(data.transactions)
                   THEN Outcome("list", <<>>, 1, "TypeError", NoOutput, rows)
                   ELSE Outcome("list", <<>>, 0, "ID | Type | Amount | Category | Description | Date",
                                NoOutput, rows)
        /\ UNCHANGED <<file, clock, goalOrder, csv, procs>>

\* path.join(__dirname, 'data.json'), budget.js line 13
DATA_FILE == "data.json"

\* the default of export's [filename], budget.js line 163
DefaultFilename == "budget_export.csv"

\* the titles of the header, budget.js lines 171-176
CsvHeader == <<"ID", "Type", "Amount", "Category", "Description", "Date">>

\* a field of a CSV record: in double quotes, its quotes doubled, when it
\* holds a comma, a quote or a line break
CsvQuote(s) ==
    IF \E i \in 1..Len(s) : s[i] \in {",", "\"", "\n"}
    THEN <<"\"">> \o s \o <<"\"">>
    ELSE s

\* the record csv-writer writes for a transaction: the fields of the header
\* in order, a null as the empty field
CsvRecord(t) ==
    <<NumberToString(t.id), CsvQuote(t.type),
      IF t.amount.k = "num" THEN NumberToString(t.amount.n) ELSE <<>>,
      CsvQuote(t.category), CsvQuote(t.description), NumberToString(t.date)>>

\* the records written from the last transaction to the first
CsvRowsReversed(transactions) ==
    <<CsvHeader>> \o [i \in 1..Len(transactions) |->
                         CsvRecord(transactions[Len(transactions) + 1 - i])]

\* csvWriter.writeRecords(data.transactions), budget.js line 179: the header
\* and one record per transaction
CsvRows(transactions) ==
    <<CsvHeader>> \o [i \in 1..Len(transactions) |-> CsvRecord(transactions[i])]

\* data.json holding text that is no JSON: CSV, or a file cut short
TextFile == [exists |-> TRUE, form |-> "text", content |-> EmptyDocument]

\* export [filename], budget.js lines 162-186, when nothing is thrown
ExportCmd(filename) ==
    LET data == LoadData(file)
        rows == CsvRows(data.transactions)
    IN  \/ /\ Thrown("export", file) = "none"
           /\ Len(data.transactions) = 0
           /\ last' = Outcome("export", <<filename>>, 0, "No transactions to export.",
                              NoOutput, NoOutput)
           /\ UNCHANGED <<file, clock, goalOrder, csv, procs>>
        \/ /\ Thrown("export", file) = "none"
           /\ Len(data.transactions) # 0
           /\ filename # DATA_FILE
           /\ csv' = [exists |-> TRUE, rows |-> rows]
           /\ last' = Outcome("export", <<filename>>, 0, "Exported", NoOutput,
                              Len(data.transactions))
           /\ UNCHANGED <<file, clock, goalOrder, procs>>
        \/ /\ Thrown("export", file) = "none"
           /\ Len(data.transactions) # 0
           /\ filename = DATA_FILE
           /\ file' = TextFile
           /\ last' = Outcome("export", <<filename>>, 0, "Exported", NoOutput,
                              Len(data.transactions))
           /\ UNCHANGED <<clock, goalOrder, csv, procs>>
        \/ /\ Thrown("export", file) = "none"
           /\ Len(data.transactions) # 0
           /\ filename # DATA_FILE
           /\ \E n \in 0..Len(data.transactions) :
                 csv' \in {csv, [exists |-> TRUE, rows |-> SubSeq(rows, 1, n)]}
           /\ last' = Outcome("export", <<filename>>, 0, "Error writing CSV:", NoOutput,
                              NoOutput)
           /\ UNCHANGED <<file, clock, goalOrder, procs>>

FilenameArgs == {DefaultFilename, DATA_FILE}

QueryAmountArgs == {<<"1">>, INFINITY}

NextQuery ==
    \/ \E type \in {INCOME, EXPENSE}, amount \in QueryAmountArgs, t \in ClockReadings :
          AddCmd(type, amount, FOOD, <<>>, t)
    \/ \E amount \in GoalAmountArgs : SetGoalCmd(FOOD, amount)
    \/ BalanceCmd
    \/ ListCmd
    \/ GoalsCmd
    \/ \E filename \in FilenameArgs : ExportCmd(filename)

SpecQuery == Init /\ [][NextQuery]_vars

(***************************************************************************)
(* A store that is not the document the commands expect: data.json as a    *)
(* hand edit, an export or a cut write leaves it.                          *)
(***************************************************************************)
\* data.json holding the JSON text null
NullFile == [exists |-> TRUE, form |-> "null", content |-> EmptyDocument]

\* a command that reaches loadData and ends in an exception nothing catches:
\* node prints it and exits with status 1, budget.js line 223
CrashCmd(cmd, args) ==
    /\ Thrown(cmd, file) # "none"
    /\ last' = Outcome(cmd, args, 1, Thrown(cmd, file), NoOutput, NoOutput)
    /\ UNCHANGED <<file, clock, goalOrder, csv, procs>>

\* a transaction as add stores it
StoredTransaction(t, amount) ==
    [NewTransaction(t, EXPENSE, Num(amount), FOOD, <<>>) EXCEPT !.amount = JsonNumber(@)]

\* the contents of data.json that lack a member, are null or are no JSON
CorruptFiles ==
    {TextFile, NullFile}
        \cup {[exists |-> TRUE, form |-> "noTransactions",
               content |-> [transactions |-> <<>>, goals |-> g]] :
                 g \in {<<>>, <<[key |-> FOOD, val |-> Num(1)]>>}}
        \cup {[exists |-> TRUE, form |-> "noGoals",
               content |-> [transactions |-> ts, goals |-> <<>>]] :
                 ts \in {<<>>, <<StoredTransaction(StartClock, 1)>>}}

InitCorrupt ==
    /\ file \in CorruptFiles
    /\ clock = StartClock
    /\ last = Outcome("none", <<>>, 0, "", NoOutput, NoOutput)
    /\ goalOrder = <<>>
    /\ csv = NoCsv
    /\ procs = NoProcs

CorruptAmountArgs == {<<"1">>, <<"0">>}

NextCorrupt ==
    \/ \E amount \in CorruptAmountArgs :
          \/ AddCmd(EXPENSE, amount, FOOD, <<>>, clock)
          \/ /\ ~AmountInvalid(ParseFloat(amount))
             /\ CrashCmd("add", <<EXPENSE, amount, FOOD, <<>>>>)
    \/ \E amount \in CorruptAmountArgs : SetGoalCmd(FOOD, amount)
    \/ \E amount \in CorruptAmountArgs :
          /\ ~AmountInvalid(ParseFloat(amount))
          /\ CrashCmd("setgoal", <<FOOD, amount>>)
    \/ \E id \in IdArgs : DeleteCmd(id)
    \/ \E id \in IdArgs : CrashCmd("delete", <<id>>)
    \/ BalanceCmd
    \/ CrashCmd("balance", <<>>)
    \/ ListCmd
    \/ CrashCmd("list", <<>>)
    \/ GoalsCmd
    \/ CrashCmd("goals", <<>>)
    \/ \E filename \in FilenameArgs : ExportCmd(filename)
    \/ \E filename \in FilenameArgs : CrashCmd("export", <<filename>>)

SpecCorrupt == InitCorrupt /\ [][NextCorrupt]_vars

(***************************************************************************)
(* Two invocations of mutating commands side by side.  Each is one process *)
(* of its own: what it shares with the other is data.json, which it reads  *)
(* once in loadData and writes once in saveData.  An invocation is three   *)
(* steps: up to and with its read; from there to the opening of the file   *)
(* in writeFileSync, which empties it; the writing of the text and what    *)
(* follows it.                                                             *)
(***************************************************************************)
Invocations == {1, 2}

\* an invocation that has not started
Idle ==
    [pc |-> "start", cmd |-> "none", args |-> <<>>, data |-> EmptyDocument,
     t |-> StartClock, out |-> Outcome("none", <<>>, 0, "", NoOutput, NoOutput)]

\* the object data after the mutation of the command, budget.js lines
\* 93-101, 146 and 201
Mutated(cmd, args, data, t) ==
    CASE cmd = "add" ->
            [data EXCEPT !.transactions =
                Push(@, NewTransaction(t, ToLowerCase(args[1]), ParseFloat(args[2]),
                                       args[3], args[4]))]
      [] cmd = "delete" -> [data EXCEPT !.transactions = FilterOut(@, args[1])]
      [] cmd = "setgoal" -> [data EXCEPT !.goals = Set(@, args[1], ParseFloat(args[2]))]

\* the file as an invocation finds it at its save, read again
ReadAgain(p) == LoadData(file)

\* the object invocation p holds: the one its loadData returned
InMemory(p) == procs.inv[p].data

\* invocation p starts command cmd and runs it up to and with loadData,
\* budget.js lines 92, 145 and 200; JSON.parse throws on a file the other
\* invocation has opened and not yet written
RaceLoad(p, cmd, args) ==
    /\ procs.inv[p].pc = "start"
    /\ \/ /\ Thrown(cmd, file) = "none"
          /\ procs' = [inv |-> [procs.inv EXCEPT ![p] =
                                   [@ EXCEPT !.pc = "loaded", !.cmd = cmd, !.args = args,
                                             !.data = LoadData(file)]],
                       log |-> Append(procs.log, <<"load", p>>)]
          /\ UNCHANGED last
       \/ /\ Thrown(cmd, file) # "none"
          /\ last' = Outcome(cmd, args, 1, Thrown(cmd, file), NoOutput, NoOutput)
          /\ procs' = [procs EXCEPT !.inv[p] =
                          [@ EXCEPT !.pc = "done", !.cmd = cmd, !.args = args,
                                    !.out = last']]
    /\ UNCHANGED <<file, clock, goalOrder, csv>>

\* invocation p runs from its mutation into saveData, where writeFileSync
\* opens data.json for writing and so empties it, with t the reading of
\* Date.now(): budget.js lines 93-102, 146-153 and 201-202; a delete that
\* found nothing returns instead (lines 149-151)
RaceOpen(p, t) ==
    LET inv == procs.inv[p]
        found == Len(Mutated(inv.cmd, inv.args, InMemory(p), t).transactions)
                     # Len(InMemory(p).transactions)
    IN  /\ inv.pc = "loaded"
        /\ \/ /\ inv.cmd = "delete" /\ ~found
              /\ last' = Outcome("delete", inv.args, 0, "No transaction found with that ID",
                                 NoOutput, NoOutput)
              /\ procs' = [procs EXCEPT !.inv[p] = [@ EXCEPT !.pc = "done", !.out = last']]
              /\ UNCHANGED <<file, clock>>
           \/ /\ inv.cmd = "delete" => found
              /\ file' = TextFile
              /\ clock' = IF inv.cmd = "add" THEN t ELSE clock
              /\ procs' = [inv |-> [procs.inv EXCEPT ![p] =
                                       [@ EXCEPT !.pc = "opened", !.t = t]],
                           log |-> Append(procs.log, <<"open", p>>)]
              /\ UNCHANGED last
        /\ UNCHANGED <<goalOrder, csv>>

\* invocation p writes its text from the start of the file and runs to its
\* exit: budget.js lines 26, 104-108, 154 and 203.  Onto the text the other
\* invocation wrote since p opened the file, the outcome is p's text or,
\* the other text being longer, p's text and the end of the other: no JSON
RaceWrite(p) ==
    LET inv == procs.inv[p]
        new == Mutated(inv.cmd, inv.args, InMemory(p), inv.t)
        out == CASE inv.cmd = "add" ->
                       Outcome("add", inv.args, 0, "Added",
                               CheckAlerts(new.transactions, new.goals), NoOutput)
                 [] inv.cmd = "delete" ->
                       Outcome("delete", inv.args, 0, "Deleted", NoOutput, NoOutput)
                 [] inv.cmd = "setgoal" ->
                       Outcome("setgoal", inv.args, 0, "Set budget goal", NoOutput, NoOutput)
    IN  /\ inv.pc = "opened"
        /\ \/ file' = SaveData(new)
           \/ /\ file # TextFile
              /\ file # SaveData(new)
              /\ file' = TextFile
        /\ last' = out
        /\ procs' = [inv |-> [procs.inv EXCEPT ![p] = [@ EXCEPT !.pc = "done", !.out = out]],
                     log |-> Append(procs.log, <<"write", p>>)]
        /\ UNCHANGED <<clock, goalOrder, csv>>

\* the mutating commands the two invocations run
RaceCommands ==
    {<<"add", <<EXPENSE, <<"1">>, FOOD, <<>>>>>>,
     <<"delete", <<NatToString(StartClock)>>>>,
     <<"delete", <<NatToString(StartClock + 1)>>>>,
     <<"setgoal", <<FOOD, <<"1">>>>>>,
     <<"setgoal", <<TOTAL, <<"2">>>>>>}

\* the stores the two invocations find
RaceFiles ==
    {NoFile,
     SaveData([transactions |-> <<StoredTransaction(StartClock, 1)>>,
               goals |-> EmptyObject])}

InitRace ==
    /\ file \in RaceFiles
    /\ clock = StartClock
    /\ last = Outcome("none", <<>>, 0, "", NoOutput, NoOutput)
    /\ goalOrder = <<>>
    /\ csv = NoCsv
    /\ procs = [inv |-> [p \in Invocations |-> Idle], log |-> <<>>]

NextRace ==
    \/ \E p \in Invocations, c \in RaceCommands : RaceLoad(p, c[1], c[2])
    \/ \E p \in Invocations, t \in ClockReadings : RaceOpen(p, t)
    \/ \E p \in Invocations : RaceWrite(p)

SpecRace == InitRace /\ [][NextRace]_vars

(***************************************************************************)
(* saveData that fails: writeFileSync throws, nothing catches it and the   *)
(* command ends there.                                                     *)
(***************************************************************************)
\* the alerts shown by a handler that ran the alert engine before its save
AlertsBeforeSave(transactions, goals) == CheckAlerts(transactions, goals)

\* the alerts an add shows when saveData throws: checkAlerts (line 107)
\* comes after saveData (line 102) and is not reached
AlertsOnThrow(transactions, goals) == NoOutput

\* data.json after a writeFileSync that threw: as it was when the file could
\* not be opened (no permission, read-only), emptied or cut when it was
\* opened for writing and the write failed (disk full)
WriteFailures(f) == {f, TextFile}

\* a mutating command that reaches saveData, whose writeFileSync throws:
\* budget.js lines 102, 153 and 202, with t the reading of Date.now()
SaveThrows(cmd, args, t) ==
    LET data == LoadData(file)
        new == Mutated(cmd, args, data, t)
    IN  /\ Thrown(cmd, file) = "none"
        /\ cmd = "add" => (~TypeInvalid(ToLowerCase(args[1]))
                              /\ ~AmountInvalid(ParseFloat(args[2])))
        /\ cmd = "setgoal" => ~AmountInvalid(ParseFloat(args[2]))
        /\ cmd = "delete" => Len(new.transactions) # Len(data.transactions)
        /\ file' \in WriteFailures(file)
        /\ clock' = IF cmd = "add" THEN t ELSE clock
        /\ last' = Outcome(cmd, args, 1, "Error",
                           IF cmd = "add" THEN AlertsOnThrow(new.transactions, new.goals)
                           ELSE NoOutput,
                           NoOutput)
        /\ UNCHANGED <<goalOrder, csv, procs>>

FailAmountArgs == {<<"1">>, <<"2">>}

\* the mutating commands of the specification, valid ones
FailCommands ==
    {<<"add", <<type, amount, FOOD, <<>>>>>> :
        type \in {INCOME, EXPENSE}, amount \in FailAmountArgs}
        \cup {<<"delete", <<id>>>> : id \in IdArgs}
        \cup {<<"setgoal", <<category, <<"1">>>>>> : category \in GoalKeyArgs}

NextFail ==
    \/ \E type \in {INCOME, EXPENSE}, amount \in FailAmountArgs, t \in ClockReadings :
          AddCmd(type, amount, FOOD, <<>>, t)
    \/ \E id \in IdArgs : DeleteCmd(id)
    \/ \E category \in GoalKeyArgs, amount \in GoalAmountArgs :
          SetGoalCmd(category, amount)
    \/ \E c \in FailCommands, t \in ClockReadings :
          /\ c[1] = "add" => Len(LoadData(file).transactions) < MaxTx
          /\ SaveThrows(c[1], c[2], t)
    \/ \E c \in FailCommands : CrashCmd(c[1], c[2])

SpecFail == Init /\ [][NextFail]_vars

(***************************************************************************)
(* The claims.                                                             *)
(***************************************************************************)
\* the persisted document: empty while data.json does not exist
Stored(f) == IF f.exists THEN f.content ELSE EmptyDocument

StoredTx == Stored(file).transactions

StoredGoals == Stored(file).goals

\* C1: no two transactions of the persisted store have the same id.
C1_UniqueIds ==
    \A i, j \in 1..Len(StoredTx) : i # j => StoredTx[i].id # StoredTx[j].id

\* C2: every transaction of the persisted store has an amount that is a
\* positive finite number and a type that is income or expense.
C2_AmountsPositiveFinite ==
    \A i \in 1..Len(StoredTx) :
        /\ StoredTx[i].amount.k = "num"
        /\ StoredTx[i].amount.n > 0
        /\ StoredTx[i].type \in {INCOME, EXPENSE}

\* the type argument normalizes to income or expense
NormalizesToType(type) == ToLowerCase(type) \in {INCOME, EXPENSE}

\* the amount argument is non-numeric or <= 0
NonNumericOrNotPositive(amount) ==
    LET v == ParseFloat(amount)
    IN  \/ v.k = "nan"
        \/ v.k = "num" /\ v.n <= 0
        \/ v.k = "inf" /\ v.n < 0

\* the amount argument parses to a positive finite number
PositiveFinite(amount) ==
    LET v == ParseFloat(amount) IN v.k = "num" /\ v.n > 0

C4_ValidAddAppends ==
    [][(/\ last'.cmd = "add"
        /\ NormalizesToType(last'.args[1])
        /\ PositiveFinite(last'.args[2]))
       => LET old == Stored(file)
              new == Stored(file')
              n == Len(old.transactions)
          IN  /\ last'.exit = 0
              /\ file'.exists
              /\ Len(new.transactions) = n + 1
              /\ SubSeq(new.transactions, 1, n) = old.transactions
              /\ new.transactions[n + 1].type = ToLowerCase(last'.args[1])
              /\ new.transactions[n + 1].amount = ParseFloat(last'.args[2])
              /\ new.transactions[n + 1].category = last'.args[3]
              /\ new.goals = old.goals]_vars

\* a valid add, typed in another case, was appended after a different
\* transaction, with a goal in the store
C4_Witness ==
    /\ last.cmd = "add"
    /\ last.exit = 0
    /\ last.args[1] # ToLowerCase(last.args[1])
    /\ PositiveFinite(last.args[2])
    /\ Len(StoredTx) = 2
    /\ StoredTx[1].type # StoredTx[2].type
    /\ Len(StoredGoals) > 0

\* the stored transactions whose id, as a string, is the identifier
Matching(transactions, id) ==
    {i \in 1..Len(transactions) : NumberToString(transactions[i].id) = id}

\* C5: a delete whose identifier equals, as a string, the id of no stored
\* transaction reports not-found and leaves data.json as it was.
C5_DeleteMissingUnchanged ==
    [][(last'.cmd = "delete" /\ Matching(Stored(file).transactions, last'.args[1]) = {})
       => (/\ last'.msg = "No transaction found with that ID"
           /\ file' = file)]_vars

\* a delete did not find an identifier that differs from a stored id only
\* by a leading zero
C5_Witness ==
    /\ last.cmd = "delete"
    /\ last.msg = "No transaction found with that ID"
    /\ \E i \in 1..Len(StoredTx) : last.args[1] = <<"0">> \o NumberToString(StoredTx[i].id)

\* C6: a delete whose identifier matches a stored transaction removes that
\* transaction and nothing else: the list is shorter by exactly one, the
\* others keep their order, the goals are unchanged.
C6_DeleteRemovesOne ==
    [][(last'.cmd = "delete" /\ Matching(Stored(file).transactions, last'.args[1]) # {})
       => LET old == Stored(file)
              new == Stored(file')
          IN  /\ Len(new.transactions) = Len(old.transactions) - 1
              /\ \E i \in Matching(old.transactions, last'.args[1]) :
                    new.transactions =
                        SubSeq(old.transactions, 1, i - 1)
                            \o SubSeq(old.transactions, i + 1, Len(old.transactions))
              /\ new.goals = old.goals]_vars

AddSucceeded == last.cmd = "add" /\ last.exit = 0

Alerted(key) == \E i \in 1..Len(last.alerts) : last.alerts[i].key = key

\* the sum of the amounts of the expenses of ts that count for a goal key:
\* all of them for total, those of the category for another key
RECURSIVE ExactSpend(_, _)
ExactSpend(ts, key) ==
    IF ts = <<>> THEN 0
    ELSE ExactSpend(Tail(ts), key)
            + (IF /\ ts[1].type = EXPENSE
                  /\ ts[1].amount.k = "num"
                  /\ (key = TOTAL \/ ts[1].category = key)
               THEN ts[1].amount.n ELSE 0)

\* C7: checkAlerts emits an alert for a goal key if and only if the spend
\* for that key strictly exceeds the goal.
C7_AlertIffExceeds ==
    AddSucceeded =>
        \A i \in 1..Len(StoredGoals) :
            StoredGoals[i].val.k = "num" =>
                (Alerted(StoredGoals[i].key)
                    <=> ExactSpend(StoredTx, StoredGoals[i].key) > StoredGoals[i].val.n)

Position(seq, x) == CHOOSE i \in 1..Len(seq) : seq[i] = x

\* C8: the alerts are in the order in which setgoal first set their keys.
C8_InsertionOrder ==
    AddSucceeded =>
        \A i, j \in 1..Len(last.alerts) :
            i < j => Position(goalOrder, last.alerts[i].key)
                        < Position(goalOrder, last.alerts[j].key)

\* a string of digits that is the decimal notation of its value
CanonicalIndex(key) ==
    /\ key # <<>>
    /\ \A i \in 1..Len(key) : key[i] \in {Digits[d] : d \in 1..10}
    /\ NatToString(DecimalValue(key)) = key

\* a comes before b in the property order of the goals
KeyBefore(a, b) ==
    CASE CanonicalIndex(a) /\ CanonicalIndex(b) -> DecimalValue(a) < DecimalValue(b)
      [] CanonicalIndex(a) -> TRUE
      [] CanonicalIndex(b) -> FALSE
      [] OTHER -> Position(goalOrder, a) < Position(goalOrder, b)

\* C8, amended: the alerts of the keys that are canonical array indices come
\* first, in ascending numeric order, then those of the other keys in the
\* order in which setgoal first set them.
C8_PropertyOrder ==
    AddSucceeded =>
        \A i, j \in 1..Len(last.alerts) :
            i < j => KeyBefore(last.alerts[i].key, last.alerts[j].key)

\* two alerts were displayed in an order that is not the order their goals
\* were set in
C8_Witness ==
    /\ AddSucceeded
    /\ \E i, j \in 1..Len(last.alerts) :
          /\ i < j
          /\ Position(goalOrder, last.alerts[i].key)
                > Position(goalOrder, last.alerts[j].key)

\* the spend the engine reports for a goal key over ts, from the sum so far
RECURSIVE SpendOf(_, _, _)
SpendOf(ts, key, sum) ==
    IF ts = <<>> THEN sum
    ELSE IF ts[1].type = EXPENSE /\ (key = TOTAL \/ ts[1].category = key)
         THEN SpendOf(Tail(ts), key, Plus(sum, ts[1].amount))
         ELSE SpendOf(Tail(ts), key, sum)

GROCERIES == <<"g", "r", "o", "c", "e", "r", "i", "e", "s">>
SALARY == <<"s", "a", "l", "a", "r", "y">>

\* income 1000, expenses 200 and 400 in groceries, a goal of 500 for
\* groceries, then an expense of 150 in groceries: spent 750, goal 500
C9_Scenario ==
    CheckAlerts(
        <<NewTransaction(1, INCOME, ParseFloat(<<"1", "0", "0", "0">>), SALARY, <<>>),
          NewTransaction(2, EXPENSE, ParseFloat(<<"2", "0", "0">>), GROCERIES, <<>>),
          NewTransaction(3, EXPENSE, ParseFloat(<<"4", "0", "0">>), GROCERIES, <<>>),
          NewTransaction(4, EXPENSE, ParseFloat(<<"1", "5", "0">>), GROCERIES, <<>>)>>,
        Set(EmptyObject, GROCERIES, ParseFloat(<<"5", "0", "0">>)))
    = <<[kind |-> "category", key |-> GROCERIES, spent |-> Num(750), goal |-> Num(500)]>>

\* C9: after a successful add the alerts are those of the list that holds
\* the new transaction and of the goals in the store, each reporting the
\* spend that counts the new transaction; data.json holds nothing of them.
C9_AlertsCountNewTransaction ==
    [][(last'.cmd = "add" /\ last'.exit = 0)
       => LET old == Stored(file)
              list == Append(old.transactions,
                             [id |-> clock', type |-> ToLowerCase(last'.args[1]),
                              amount |-> ParseFloat(last'.args[2]),
                              category |-> last'.args[3],
                              description |-> last'.args[4], date |-> DateOf(clock')])
              goals == ParseObject(Stored(file').goals)
          IN  /\ last'.alerts = CheckAlerts(list, goals)
              /\ \A i \in 1..Len(last'.alerts) :
                    /\ HasOwn(goals, last'.alerts[i].key)
                    /\ last'.alerts[i].goal = Get(goals, last'.alerts[i].key)
                    /\ last'.alerts[i].spent = SpendOf(list, last'.alerts[i].key, Num(0))
              /\ DOMAIN file'.content = {"transactions", "goals"}
              /\ file' = SaveData([transactions |-> list, goals |-> ParseObject(old.goals)])
              /\ C9_Scenario]_vars

\* an add displayed an alert whose spend is the sum of the amount stored
\* before and the amount just added
C9_Witness ==
    /\ AddSucceeded
    /\ Len(StoredTx) = 2
    /\ StoredTx[1].amount.k = "num" /\ StoredTx[2].amount.k = "num"
    /\ \E i \in 1..Len(last.alerts) :
          /\ last.alerts[i].kind = "category"
          /\ last.alerts[i].spent = Num(StoredTx[1].amount.n + StoredTx[2].amount.n)

\* the sum of the income amounts of ts minus the sum of its expense amounts
RECURSIVE ExactBalance(_)
ExactBalance(ts) ==
    IF ts = <<>> THEN 0
    ELSE ExactBalance(Tail(ts))
            + (IF ts[1].amount.k # "num" THEN 0
               ELSE IF ts[1].type = INCOME THEN ts[1].amount.n
               ELSE 0 - ts[1].amount.n)

\* C10: balance reports the sum of the stored income amounts minus the sum
\* of the stored expense amounts, to two decimals.
C10_BalanceIsSum ==
    last.cmd = "balance"
        => last.report = NumberToString(ExactBalance(StoredTx)) \o <<".", "0", "0">>
\* the value of goal key k in the persisted document d, Undefined when the
\* document has no such goal
GoalOf(d, k) ==
    IF \E i \in 1..Len(d.goals) : d.goals[i].key = k
    THEN d.goals[CHOOSE i \in 1..Len(d.goals) : d.goals[i].key = k].val
    ELSE Undefined

GoalKeysOf(d) == {d.goals[i].key : i \in 1..Len(d.goals)}

\* C11: a valid setgoal for key k and amount v leaves the persisted document
\* with goals[k] = v, every other goal key and value as it was and the
\* transaction list as it was.
C11_SetGoalStores ==
    [][(last'.cmd = "setgoal" /\ PositiveFinite(last'.args[2]))
       => LET old == Stored(file)
              new == Stored(file')
              k == last'.args[1]
          IN  /\ GoalOf(new, k) = ParseFloat(last'.args[2])
              /\ GoalKeysOf(new) = GoalKeysOf(old) \cup {k}
              /\ \A j \in GoalKeysOf(old) \ {k} : GoalOf(new, j) = GoalOf(old, j)
              /\ new.transactions = old.transactions]_vars

\* C12, its first half: a setgoal whose amount is non-numeric or <= 0 prints
\* the error and leaves data.json as it was.
C12_InvalidSetGoalUnchanged ==
    [][(last'.cmd = "setgoal" /\ NonNumericOrNotPositive(last'.args[2]))
       => (last'.msg = "Amount must be a positive number" /\ file' = file)]_vars

\* C12: invalid setgoal commands being rejected, every goal value of the
\* persisted store is a positive number.
C12_GoalsPositive ==
    \A i \in 1..Len(StoredGoals) :
        StoredGoals[i].val.k = "num" /\ StoredGoals[i].val.n > 0

\* the commands that only read the store
QueryCmds == {"balance", "list", "goals", "export"}

\* what a query command prints on a store with no transactions and no goals
ReadAsEmpty(o) ==
    CASE o.cmd = "balance" -> o.report = <<"0", ".", "0", "0">>
      [] o.cmd = "list" -> o.msg = "No transactions found."
      [] o.cmd = "goals" -> o.msg = "No budget goals set."
      [] o.cmd = "export" -> o.msg = "No transactions to export."

\* C13: balance, list, goals and export leave data.json as it was, and while
\* there is no data.json they read it as empty and do not create it.
C13_QueriesLeaveStore ==
    [][(last'.cmd \in QueryCmds /\ last' # last)
       => /\ file' = file
          /\ ~file.exists => (ReadAsEmpty(last') /\ csv' = csv)]_vars

\* C13, for an export that is not given the path of data.json
C13_UnlessExportToStore ==
    [][(/\ last'.cmd \in QueryCmds
        /\ last' # last
        /\ ~(last'.cmd = "export" /\ last'.args[1] = DATA_FILE))
       => /\ file' = file
          /\ ~file.exists => (ReadAsEmpty(last') /\ csv' = csv)]_vars

\* the command of outcome o got as far as loadData: add and setgoal return
\* before it when an argument is invalid
ReachedLoad(o) ==
    CASE o.cmd = "add" -> NormalizesToType(o.args[1]) /\ ~NonNumericOrNotPositive(o.args[2])
      [] o.cmd = "setgoal" -> ~NonNumericOrNotPositive(o.args[2])
      [] o.cmd = "none" -> FALSE
      [] OTHER -> TRUE

\* data.json is there and is not a document with a transactions list and a
\* goals mapping
Corrupt(f) == f.exists /\ f.form # "document"

\* C14: on a store that cannot be parsed as the expected structure, every
\* command that loads it ends in a fatal error and leaves data.json as it
\* was.
C14_CorruptStoreFatal ==
    [][(Corrupt(file) /\ ReachedLoad(last') /\ last' # last)
       => (last'.exit = 1 /\ file' = file)]_vars

\* C14, for a store that is no JSON or is the JSON null
C14_UnparsableFatal ==
    [][(file.exists /\ file.form \in {"text", "null"} /\ ReachedLoad(last') /\ last' # last)
       => (last'.exit = 1 /\ file' = file)]_vars

\* row is the CSV record of the stored transaction t
RecordOf(row, t) ==
    /\ Len(row) = 6
    /\ row[1] = NumberToString(t.id)
    /\ row[2] = t.type
    /\ row[3] = (IF t.amount.k = "num" THEN NumberToString(t.amount.n) ELSE <<>>)
    /\ row[4] = t.category
    /\ row[5] = t.description
    /\ row[6] = NumberToString(t.date)

\* C15: an export on a store without transactions writes no file and says
\* there is nothing to export; an export on a store with transactions that
\* reports success has written the header and one record per stored
\* transaction, in the order of the store.
C15_ExportWritesAll ==
    [][(last'.cmd = "export" /\ last' # last)
       => LET ts == Stored(file).transactions
          IN  IF Len(ts) = 0
              THEN /\ last'.msg = "No transactions to export."
                   /\ csv' = csv
                   /\ file' = file
              ELSE /\ last'.msg \in {"Exported", "Error writing CSV:"}
                   /\ (last'.msg = "Exported" /\ last'.args[1] # DATA_FILE)
                         => /\ csv'.exists
                            /\ Len(csv'.rows) = Len(ts) + 1
                            /\ csv'.rows[1] = CsvHeader
                            /\ \A i \in 1..Len(ts) : RecordOf(csv'.rows[i + 1], ts[i])]_vars

\* an export has written two transactions with different ids
C15_Witness ==
    /\ last.cmd = "export"
    /\ last.msg = "Exported"
    /\ last.args[1] = DefaultFilename
    /\ Len(StoredTx) = 2
    /\ StoredTx[1].id # StoredTx[2].id
    /\ Len(csv.rows) = 3

\* an export on an empty store has written nothing
C15_WitnessEmpty ==
    /\ last.cmd = "export"
    /\ last.msg = "No transactions to export."
    /\ ~csv.exists

\* both invocations loaded before either saved, and both have saved, one
\* save after the other
BothLoadedThenSaved ==
    /\ Len(procs.log) = 6
    /\ procs.log[1][1] = "load" /\ procs.log[2][1] = "load"
    /\ procs.log[3][1] = "open" /\ procs.log[4] = <<"write", procs.log[3][2]>>
    /\ procs.log[5][1] = "open" /\ procs.log[6] = <<"write", procs.log[5][2]>>

\* the persisted document new is the document old with the mutation of the
\* command cmd args, and with nothing else
OnlyMutation(cmd, args, old, new) ==
    CASE cmd = "add" ->
            /\ Len(new.transactions) = Len(old.transactions) + 1
            /\ SubSeq(new.transactions, 1, Len(old.transactions)) = old.transactions
            /\ new.transactions[Len(new.transactions)].type = ToLowerCase(args[1])
            /\ new.transactions[Len(new.transactions)].category = args[3]
            /\ new.goals = old.goals
      [] cmd = "delete" ->
            /\ new.transactions =
                  SelectSeq(old.transactions, LAMBDA t : NumberToString(t.id) # args[1])
            /\ new.goals = old.goals
      [] cmd = "setgoal" ->
            /\ new.transactions = old.transactions
            /\ GoalOf(new, args[1]) = ParseFloat(args[2])
            /\ GoalKeysOf(new) = GoalKeysOf(old) \cup {args[1]}
            /\ \A j \in GoalKeysOf(old) \ {args[1]} : GoalOf(new, j) = GoalOf(old, j)

SaveFailed(o) == o.cmd \in {"add", "delete", "setgoal"} /\ o.msg = "Error"

\* C17: when the save of a mutating command fails, data.json is left as it
\* was before the command, never cut or partly written, and no success is
\* reported.
C17_FailedSaveUnchanged ==
    [][(SaveFailed(last') /\ last' # last)
       => (file' = file /\ last'.exit = 1 /\ last'.alerts = NoOutput)]_vars

\* C17, but for the file itself: a command whose save threw reports no
\* success and shows no alert
C17_FailedSaveSilent ==
    [][(SaveFailed(last') /\ last' # last)
       => (last'.exit = 1 /\ last'.alerts = NoOutput)]_vars

\* the transaction the add of outcome o stores is the last one of document d
PersistedLast(o, d) ==
    /\ Len(d.transactions) > 0
    /\ LET t == d.transactions[Len(d.transactions)]
       IN  /\ t.type = ToLowerCase(o.args[1])
           /\ t.amount = JsonNumber(ParseFloat(o.args[2]))
           /\ t.category = o.args[3]
           /\ t.id = clock'

\* C18: goals never block a transaction: a valid add on a store that loads
\* succeeds unless its save fails, whatever the goals, and has then appended
\* its transaction to the persisted store; and whenever an add shows an
\* alert its transaction is already persisted.
C18_SavedBeforeAlerts ==
    [][(last'.cmd = "add" /\ last' # last)
       => LET old == Stored(file)
              new == Stored(file')
          IN  /\ last'.msg = "Added"
                    => /\ file'.exists /\ file'.form = "document"
                       /\ Len(new.transactions) = Len(old.transactions) + 1
                       /\ PersistedLast(last', new)
              /\ last'.alerts # NoOutput
                    => /\ last'.msg = "Added"
                       /\ file'.exists /\ file'.form = "document"
                       /\ PersistedLast(last', new)
              /\ (/\ NormalizesToType(last'.args[1])
                  /\ PositiveFinite(last'.args[2])
                  /\ ~Corrupt(file)
                  /\ ~SaveFailed(last'))
                    => last'.msg = "Added"]_vars

\* an add of an expense was stored and showed the alert of the goal it
\* exceeds
C18_Witness ==
    /\ last.cmd = "add"
    /\ last.msg = "Added"
    /\ last.args[1] = EXPENSE
    /\ last.alerts # NoOutput
    /\ Len(StoredTx) = 2
    /\ Len(StoredGoals) > 0

\* C19: only add shows alerts, and an add that succeeds shows one for every
\* goal exceeded in the resulting store, whatever the transaction it added;
\* setgoal and delete show none.
C19_AddShowsEveryExceededGoal ==
    /\ last.cmd # "add" => last.alerts = NoOutput
    /\ AddSucceeded =>
          \A i \in 1..Len(StoredGoals) :
              (/\ StoredGoals[i].val.k = "num"
               /\ ExactSpend(StoredTx, StoredGoals[i].key) > StoredGoals[i].val.n)
                  => Alerted(StoredGoals[i].key)

\* C19, for the goals whose key is no name inherited from Object.prototype
C19_ExceptInheritedKeys ==
    /\ last.cmd # "add" => last.alerts = NoOutput
    /\ AddSucceeded =>
          \A i \in 1..Len(StoredGoals) :
              (/\ StoredGoals[i].val.k = "num"
               /\ StoredGoals[i].key \notin ObjectPrototypeKeys
               /\ ExactSpend(StoredTx, StoredGoals[i].key) > StoredGoals[i].val.n)
                  => Alerted(StoredGoals[i].key)

\* an add of income showed again the alert of a goal exceeded before it
C19_IncomeRepeatsAlert ==
    /\ AddSucceeded
    /\ last.args[1] = INCOME
    /\ last.alerts # NoOutput

\* a setgoal set a goal below the spend and showed no alert
C19_SetGoalBelowSpend ==
    /\ last.cmd = "setgoal"
    /\ last.msg = "Set budget goal"
    /\ last.alerts = NoOutput
    /\ \E i \in 1..Len(StoredGoals) :
          /\ StoredGoals[i].val.k = "num"
          /\ ExactSpend(StoredTx, StoredGoals[i].key) > StoredGoals[i].val.n

=============================================================================
